---- MODULE Spec2Model ----
(***************************************************************************)
(* Model of the remission calculator of src/script.js: the fixed-unit      *)
(* Duration Adder, the Calendar Converter, the tiered Remission Calculator *)
(* and the real-calendar Date Subtractor, driven by the Calculate and      *)
(* Clear buttons of the form.                                              *)
(***************************************************************************)
EXTENDS Integers, Sequences, FiniteSets, TLC

VARIABLES sentenceDate, years, months, days, display,
          fixedLPD, lpdParts, lpdCalDate, remission, epdParts, epdCalDate

vars == <<sentenceDate, years, months, days, display,
          fixedLPD, lpdParts, lpdCalDate, remission, epdParts, epdCalDate>>

(* ------------------------------ bounds --------------------------------- *)

\* Spec: every start date of the years StartYears, with durations of
\* 0..MaxYears years, 0..MaxMonths months and 0..MaxDays days.
StartYears == {2024}
MaxYears == 4
MaxMonths == 11
MaxDays == 30

\* SpecRem: the start dates of the documented scenarios, with durations of
\* 0..MaxRemYears years, 0..MaxRemMonths months and 0..MaxRemDays days.
MaxRemYears == 5
MaxRemMonths == 13
MaxRemDays == 46

(* ----------------------- the JavaScript Date object -------------------- *)

IsLeapYear(y) == (y % 4 = 0 /\ y % 100 # 0) \/ y % 400 = 0

\* Length of month m (1..12) of year y in the Gregorian calendar of Date.
MonthLength(y, m) ==
  IF m = 2 THEN (IF IsLeapYear(y) THEN 29 ELSE 28)
  ELSE IF m \in {4, 6, 9, 11} THEN 30 ELSE 31

\* Date's day normalisation: a day below 1 moves into the previous months,
\* a day beyond the month's length moves into the following months.
RECURSIVE DateDayCarry(_, _, _)
DateDayCarry(y, m, d) ==
  IF d < 1
    THEN LET pm == IF m = 1 THEN 12 ELSE m - 1
             py == IF m = 1 THEN y - 1 ELSE y
         IN DateDayCarry(py, pm, d + MonthLength(py, pm))
  ELSE IF d > MonthLength(y, m)
    THEN LET nm == IF m = 12 THEN 1 ELSE m + 1
             ny == IF m = 12 THEN y + 1 ELSE y
         IN DateDayCarry(ny, nm, d - MonthLength(y, m))
  ELSE [year |-> y, month |-> m, day |-> d]

\* new Date(year, monthIndex, day): monthIndex is zero-based and overflows
\* into the year. The record holds getFullYear(), getMonth() + 1, getDate().
NewDate(year, monthIndex, day) ==
  DateDayCarry(year + (monthIndex \div 12), (monthIndex % 12) + 1, day)

(* ------------------------------ helpers -------------------------------- *)

dateFromPartsCalendar(year, month, day) == NewDate(year, month - 1, day)

daysInCalendarMonth(month, year) == NewDate(year, month, 0).day

(* --------------------------- Duration Adder ---------------------------- *)

RECURSIVE NormalizeFixedDays(_, _)
NormalizeFixedDays(m, d) ==
  IF d > 30 THEN NormalizeFixedDays(m + 1, d - 30) ELSE [month |-> m, day |-> d]

RECURSIVE NormalizeFixedMonths(_, _)
NormalizeFixedMonths(y, m) ==
  IF m > 12 THEN NormalizeFixedMonths(y + 1, m - 12) ELSE [year |-> y, month |-> m]

addFixedDurationToDate_parts_DropZeroBorrow(startY, startM, startD, addY, addM, addD) ==
  LET nd == NormalizeFixedDays(startM + addM, startD + addD)
      nm == NormalizeFixedMonths(startY + addY, nd.month)
      d1 == nd.day - 1
  IN IF d1 < 0
       THEN IF nm.month - 1 <= 0
              THEN [year |-> nm.year - 1, month |-> nm.month - 1 + 12, day |-> d1 + 30]
              ELSE [year |-> nm.year, month |-> nm.month - 1, day |-> d1 + 30]
       ELSE [year |-> nm.year, month |-> nm.month, day |-> d1]

addFixedDurationToDate_parts_NoMinusOne(startY, startM, startD, addY, addM, addD) ==
  LET nd == NormalizeFixedDays(startM + addM, startD + addD)
      nm == NormalizeFixedMonths(startY + addY, nd.month)
  IN [year |-> nm.year, month |-> nm.month, day |-> nd.day]

addFixedDurationToDate_parts(startY, startM, startD, addY, addM, addD) ==
  LET nd == NormalizeFixedDays(startM + addM, startD + addD)
      nm == NormalizeFixedMonths(startY + addY, nd.month)
      d1 == nd.day - 1
  IN IF d1 <= 0
       THEN IF nm.month - 1 <= 0
              THEN [year |-> nm.year - 1, month |-> nm.month - 1 + 12, day |-> d1 + 30]
              ELSE [year |-> nm.year, month |-> nm.month - 1, day |-> d1 + 30]
       ELSE [year |-> nm.year, month |-> nm.month, day |-> d1]

(* -------------------------- Calendar Converter ------------------------- *)

RECURSIVE ConvertCarry_SameMonth(_, _, _, _)
ConvertCarry_SameMonth(y, m, d, iters) ==
  LET actual == daysInCalendarMonth(m, y)
  IN IF d <= actual
       THEN [year |-> y, month |-> m, day |-> d, iters |-> iters]
       ELSE ConvertCarry_SameMonth(y, m, d - actual, iters + 1)

\* The carry loop of convertFixedToCalendarDate; iters counts its passes.
RECURSIVE ConvertCarry(_, _, _, _)
ConvertCarry(y, m, d, iters) ==
  LET actual == daysInCalendarMonth(m, y)
  IN IF d <= actual
       THEN [year |-> y, month |-> m, day |-> d, iters |-> iters]
       ELSE IF m + 1 > 12
              THEN ConvertCarry(y + 1, 1, d - actual, iters + 1)
              ELSE ConvertCarry(y, m + 1, d - actual, iters + 1)

\* The (y, m, d) that convertFixedToCalendarDate hands to the Date object.
convertFixedParts(fixed) == ConvertCarry(fixed.year, fixed.month, fixed.day, 0)

convertFixedToCalendarDate(fixed) ==
  LET p == convertFixedParts(fixed)
  IN dateFromPartsCalendar(p.year, p.month, p.day)

(* ------------------------- Remission Calculator ------------------------ *)

Floor3(n) == n \div 3
Ceil3(n) == (n + 2) \div 3

\* raw = d / 3; frac = raw - floor(raw) is 0, 1/3 or 2/3.
RoundThird_Floor(d) == Floor3(d)

RoundThird(d) == IF 2 * (d % 3) >= 3 THEN Ceil3(d) ELSE Floor3(d)

RECURSIVE NormalizeRemission_Strict(_, _, _)
NormalizeRemission_Strict(remY, remM, remD) ==
  IF remD > 30 THEN NormalizeRemission_Strict(remY, remM + 1, remD - 30)
  ELSE [years |-> remY, months |-> remM, days |-> remD]

RECURSIVE NormalizeRemission(_, _, _)
NormalizeRemission(remY, remM, remD) ==
  IF remD >= 30 THEN NormalizeRemission(remY, remM + 1, remD - 30)
  ELSE [years |-> remY, months |-> remM, days |-> remD]

computePerfectThird_NoDownConvert(y, m, d) ==
  LET remY == IF y > 0 THEN Floor3(y) ELSE 0
      m1 == IF y > 0 THEN m + (y - Floor3(y) * 3) * 12 ELSE m
      remM == IF m1 > 0 THEN Floor3(m1) ELSE 0
      remD == IF d > 0 THEN RoundThird(d) ELSE 0
  IN NormalizeRemission(remY, remM, remD)

computePerfectThird(y, m, d) ==
  LET remY == IF y > 0 THEN Floor3(y) ELSE 0
      m1 == IF y > 0 THEN m + (y - Floor3(y) * 3) * 12 ELSE m
      remM == IF m1 > 0 THEN Floor3(m1) ELSE 0
      d1 == IF m1 > 0 THEN d + (m1 - Floor3(m1) * 3) * 30 ELSE d
      remD == IF d1 > 0 THEN RoundThird(d1) ELSE 0
  IN NormalizeRemission(remY, remM, remD)

computeRemissionFromSentence_From31(y, m, d) ==
  LET totalDays == (y * 360) + (m * 30) + d
  IN IF totalDays <= 30 THEN [years |-> 0, months |-> 0, days |-> 0]
     ELSE IF totalDays >= 31 /\ totalDays <= 44
       THEN [years |-> 0, months |-> 0, days |-> totalDays - 31]
     ELSE computePerfectThird(y, m, d)

computeRemissionFromSentence(y, m, d) ==
  LET totalDays == (y * 360) + (m * 30) + d
  IN IF totalDays <= 30 THEN [years |-> 0, months |-> 0, days |-> 0]
     ELSE IF totalDays >= 31 /\ totalDays <= 44
       THEN [years |-> 0, months |-> 0, days |-> totalDays - 30]
     ELSE computePerfectThird(y, m, d)

(* ---------------------------- Date Subtractor -------------------------- *)

\* "Subtract days first": borrow previous calendar months while d <= 0.
RECURSIVE BorrowDays(_, _, _, _)
BorrowDays(y, m, d, iters) ==
  IF d <= 0
    THEN LET pm == IF m - 1 < 1 THEN 12 ELSE m - 1
             py == IF m - 1 < 1 THEN y - 1 ELSE y
         IN BorrowDays(py, pm, d + daysInCalendarMonth(pm, py), iters + 1)
    ELSE [year |-> y, month |-> m, day |-> d, iters |-> iters]

\* "Subtract months": borrow years while m <= 0.
RECURSIVE BorrowMonths_KeepYear(_, _)
BorrowMonths_KeepYear(y, m) ==
  IF m <= 0 THEN BorrowMonths_KeepYear(y, m + 12) ELSE [year |-> y, month |-> m]

RECURSIVE BorrowMonths(_, _)
BorrowMonths(y, m) ==
  IF m <= 0 THEN BorrowMonths(y - 1, m + 12) ELSE [year |-> y, month |-> m]

\* "Now add 1 day": carry forward while d exceeds the calendar month.
CarryDays_Never(y, m, d, iters) ==
  [year |-> y, month |-> m, day |-> d, iters |-> iters]

RECURSIVE CarryDays(_, _, _, _)
CarryDays(y, m, d, iters) ==
  IF d > daysInCalendarMonth(m, y)
    THEN IF m + 1 > 12
           THEN CarryDays(y + 1, 1, d - daysInCalendarMonth(m, y), iters + 1)
           ELSE CarryDays(y, m + 1, d - daysInCalendarMonth(m, y), iters + 1)
    ELSE [year |-> y, month |-> m, day |-> d, iters |-> iters]

\* The (y, m, d) that subtractRemissionFromCalendarLPD hands to the Date
\* object, with the number of passes of the day-borrow and day-carry loops.
subtractRemissionParts(lpdDate, rem) ==
  LET bd == BorrowDays(lpdDate.year, lpdDate.month, lpdDate.day - rem.days, 0)
      bm == BorrowMonths(bd.year, bd.month - rem.months)
      cd == CarryDays(bm.year - rem.years, bm.month, bd.day + 1, 0)
  IN [year |-> cd.year, month |-> cd.month, day |-> cd.day,
      borrows |-> bd.iters, carries |-> cd.iters]

subtractRemissionFromCalendarLPD(lpdDate, rem) ==
  LET p == subtractRemissionParts(lpdDate, rem)
  IN dateFromPartsCalendar(p.year, p.month, p.day)

(* ------------------------------ UI wiring ------------------------------ *)

NoDate == <<>>
NoParts == [year |-> 0, month |-> 0, day |-> 0]
NoRemission == [years |-> 0, months |-> 0, days |-> 0]

\* Short sentence: no remission, EPD = LPD; otherwise the Date Subtractor.
epdCalDateOf_AlwaysSubtract(y, m, d, lpd, rem) ==
  subtractRemissionFromCalendarLPD(lpd, rem)

epdCalDateOf(y, m, d, lpd, rem) ==
  IF (y * 360 + m * 30 + d) <= 30
    THEN lpd
    ELSE subtractRemissionFromCalendarLPD(lpd, rem)

\* The (y, m, d) from which the Date shown as EPD was built.
epdPartsOf(y, m, d, lp, lpd, rem) ==
  IF (y * 360 + m * 30 + d) <= 30
    THEN lp
    ELSE LET p == subtractRemissionParts(lpd, rem)
         IN [year |-> p.year, month |-> p.month, day |-> p.day]

\* The values of the date input: the real calendar dates of the years ys.
StartDates(ys) ==
  {s \in {<<y, m, d>> : y \in ys, m \in 1..12, d \in 1..31} :
     s[3] <= MonthLength(s[1], s[2])}

ScenarioDates == {<<2024, 1, 1>>, <<2023, 2, 1>>}

NothingShown ==
  /\ display = "none"
  /\ fixedLPD = NoParts
  /\ lpdParts = NoParts
  /\ lpdCalDate = NoParts
  /\ remission = NoRemission
  /\ epdParts = NoParts
  /\ epdCalDate = NoParts

Init ==
  /\ sentenceDate \in StartDates(StartYears)
  /\ years \in 0..MaxYears
  /\ months \in 0..MaxMonths
  /\ days \in 0..MaxDays
  /\ NothingShown

InitRem ==
  /\ sentenceDate \in ScenarioDates
  /\ years \in 0..MaxRemYears
  /\ months \in 0..MaxRemMonths
  /\ days \in 0..MaxRemDays
  /\ NothingShown

\* calcBtn click handler.
Calc ==
  /\ sentenceDate # NoDate
  /\ LET startY == sentenceDate[1]
         startM == sentenceDate[2]
         startD == sentenceDate[3]
         fixed == addFixedDurationToDate_parts(startY, startM, startD, years, months, days)
         cp == convertFixedParts(fixed)
         lp == [year |-> cp.year, month |-> cp.month, day |-> cp.day]
         lpd == convertFixedToCalendarDate(fixed)
         rem == computeRemissionFromSentence(years, months, days)
     IN /\ fixedLPD' = fixed
        /\ lpdParts' = lp
        /\ lpdCalDate' = lpd
        /\ remission' = rem
        /\ epdParts' = epdPartsOf(years, months, days, lp, lpd, rem)
        /\ epdCalDate' = epdCalDateOf(years, months, days, lpd, rem)
  /\ display' = "block"
  /\ UNCHANGED <<sentenceDate, years, months, days>>

\* clearBtn click handler.
Clear ==
  /\ display = "block"
  /\ sentenceDate' = NoDate
  /\ years' = 0
  /\ months' = 0
  /\ days' = 0
  /\ display' = "none"
  /\ fixedLPD' = NoParts
  /\ lpdParts' = NoParts
  /\ lpdCalDate' = NoParts
  /\ remission' = NoRemission
  /\ epdParts' = NoParts
  /\ epdCalDate' = NoParts

Next == Calc \/ Clear

Spec == Init /\ [][Next]_vars

SpecRem == InitRem /\ [][Next]_vars

(* ------------------------------ properties ----------------------------- *)

Shown == display = "block"

totalFixedDays(y, m, d) == y * 360 + m * 30 + d

total == totalFixedDays(years, months, days)

\* The duration entered is a validated Duration: months 0..11, days 0..29.
Validated == months \in 0..11 /\ days \in 0..29

Date(y, m, d) == [year |-> y, month |-> m, day |-> d]

Rem(y, m, d) == [years |-> y, months |-> m, days |-> d]

\* p is a real calendar date as it stands, before any Date normalisation.
ValidParts(p) ==
  /\ p.month \in 1..12
  /\ p.day >= 1
  /\ p.day <= MonthLength(p.year, p.month)

DateKey(p) == p.year * 10000 + p.month * 100 + p.day

\* The passes of the loops of subtractRemissionFromCalendarLPD in this state.
subtractPasses == subtractRemissionParts(lpdCalDate, remission)

\* C1: when totalFixedDays <= 30 the result shows remission (0, 0, 0) and an
\* EPD equal to the LPD: the +1 day step is not applied.
C1_ShortSentence ==
  (Shown /\ total <= 30) =>
    /\ remission = Rem(0, 0, 0)
    /\ epdCalDate = lpdCalDate

C1_Witness ==
  /\ Shown
  /\ total = 30
  /\ months = 1
  /\ remission = Rem(0, 0, 0)
  /\ epdCalDate = lpdCalDate

\* C2: when 31 <= totalFixedDays <= 44 the remission is 0 years, 0 months and
\* totalFixedDays - 30 days.
C2_DaysAboveThirty ==
  (Shown /\ total >= 31 /\ total <= 44) => remission = Rem(0, 0, total - 30)

C2_Witness ==
  /\ Shown
  /\ days = 44
  /\ total = 44
  /\ remission = Rem(0, 0, 14)

\* The perfect third in closed form: P = m + 12 * (y mod 3),
\* pool = d + 30 * (P mod 3), R = pool / 3 rounded half-up.
ThirdP(y, m) == m + 12 * (y % 3)
ThirdPool(y, m, d) == d + 30 * (ThirdP(y, m) % 3)
ThirdR(y, m, d) ==
  (ThirdPool(y, m, d) \div 3) + (IF ThirdPool(y, m, d) % 3 = 2 THEN 1 ELSE 0)

\* C3: when totalFixedDays >= 45 the remission is years = floor(y / 3),
\* months = floor(P / 3) + floor(R / 30), days = R mod 30.
C3_PerfectThird ==
  (Shown /\ total >= 45) =>
    remission = Rem(years \div 3,
                    (ThirdP(years, months) \div 3) + (ThirdR(years, months, days) \div 30),
                    ThirdR(years, months, days) % 30)

C3_Witness ==
  /\ Shown
  /\ total >= 45
  /\ years % 3 # 0
  /\ ThirdPool(years, months, days) % 3 = 2
  /\ ThirdR(years, months, days) >= 30
  /\ remission.months = (ThirdP(years, months) \div 3) + 1

RemissionFixedDays(r) == r.years * 360 + r.months * 30 + r.days

Tier(t) == IF t <= 30 THEN 1 ELSE IF t <= 44 THEN 2 ELSE 3

\* C4: among validated durations of the same tier, a duration with at least
\* as many fixed days earns at least as much remission, in fixed days.
C4_Monotone ==
  (Shown /\ Validated) =>
    \A y \in 0..MaxRemYears, m \in 0..11, d \in 0..29 :
      (/\ Tier(totalFixedDays(y, m, d)) = Tier(total)
       /\ total <= totalFixedDays(y, m, d))
      => RemissionFixedDays(remission)
           <= RemissionFixedDays(computeRemissionFromSentence(y, m, d))

C4_Witness ==
  /\ Shown
  /\ Validated
  /\ years = 2 /\ months = 11 /\ days = 28
  /\ RemissionFixedDays(remission)
       < RemissionFixedDays(computeRemissionFromSentence(2, 11, 29))

Scenario3 ==
  Shown /\ sentenceDate = <<2024, 1, 1>> /\ years = 3 /\ months = 0 /\ days = 0

\* C5 as stated: start 2024-01-01 with 3 years gives remission (1, 0, 0),
\* LPD 2026-12-31 and EPD 2026-01-01.
C5_Original ==
  Scenario3 =>
    /\ remission = Rem(1, 0, 0)
    /\ lpdCalDate = Date(2026, 12, 31)
    /\ epdCalDate = Date(2026, 1, 1)

\* C5: start 2024-01-01 with 3 years gives remission (1, 0, 0); the -1 day
\* step borrows a fixed 30-day month, so the LPD is 2026-12-30 and the EPD
\* is 2025-12-31.
C5_Amended ==
  Scenario3 =>
    /\ remission = Rem(1, 0, 0)
    /\ fixedLPD = Date(2026, 12, 30)
    /\ lpdCalDate = Date(2026, 12, 30)
    /\ epdCalDate = Date(2025, 12, 31)

C5_Witness == Scenario3 /\ lpdCalDate.day = 30 /\ epdCalDate.year = 2025

Scenario4 ==
  Shown /\ sentenceDate = <<2023, 2, 1>> /\ years = 0 /\ months = 1 /\ days = 0

\* C6 as stated: start 2023-02-01 with 1 month gives remission (0, 0, 0), a
\* fixed-unit LPD candidate of day 29 in February 2023 and LPD 2023-03-01.
C6_Original ==
  Scenario4 =>
    /\ remission = Rem(0, 0, 0)
    /\ fixedLPD = Date(2023, 2, 29)
    /\ lpdCalDate = Date(2023, 3, 1)

\* C6: start 2023-02-01 with 1 month gives remission (0, 0, 0), a fixed-unit
\* LPD candidate of day 30 in February 2023, carried across February's 28
\* days to the LPD 2023-03-02.
C6_Amended ==
  Scenario4 =>
    /\ remission = Rem(0, 0, 0)
    /\ fixedLPD = Date(2023, 2, 30)
    /\ lpdParts = Date(2023, 3, 2)
    /\ lpdCalDate = Date(2023, 3, 2)

C6_Witness == Scenario4 /\ fixedLPD.month = 2 /\ lpdCalDate.month = 3

\* C7 as stated: for a validated duration the remission has months in 0..11
\* and days in 0..29.
C7_Original ==
  (Shown /\ Validated) =>
    /\ remission.months \in 0..11
    /\ remission.days \in 0..29

\* C7: for a validated duration the remission has days in 0..29 and months in
\* 0..12; months is 12, not carried into years, exactly for a duration of
\* 11 months 29 days with years mod 3 = 2.
C7_Amended ==
  (Shown /\ Validated) =>
    /\ remission.days \in 0..29
    /\ remission.months \in 0..12
    /\ remission.months = 12 <=> (years % 3 = 2 /\ months = 11 /\ days = 29)

C7_Witness ==
  /\ Shown
  /\ Validated
  /\ remission.months = 12
  /\ remission.days = 0

\* C8: the fixed-unit LPD candidate has day in 1..30 and month in 1..12.
C8_FixedDateRange ==
  Shown =>
    /\ fixedLPD.day \in 1..30
    /\ fixedLPD.month \in 1..12

\* The -1 day step borrowed a fixed month across the year boundary.
C8_Witness ==
  /\ Shown
  /\ sentenceDate[2] = 1
  /\ sentenceDate[3] = 1
  /\ months = 0
  /\ days = 0
  /\ fixedLPD = Date(sentenceDate[1] + years - 1, 12, 30)

\* C9: for a validated duration the (year, month, day) computed for the LPD
\* and for the EPD are real calendar dates before any Date normalisation,
\* and the loops end: the carry of the converter after at most 1 pass, the
\* day borrow of the subtractor after at most 2, its day carry after at
\* most 1.
C9_ValidCalendarDates ==
  (Shown /\ Validated) =>
    /\ ValidParts(lpdParts)
    /\ ValidParts(epdParts)
    /\ lpdCalDate = lpdParts
    /\ epdCalDate = epdParts
    /\ convertFixedParts(fixedLPD).iters <= 1
    /\ total > 30 => (subtractPasses.borrows <= 2 /\ subtractPasses.carries <= 1)

C9_Witness ==
  /\ Shown
  /\ Validated
  /\ total > 30
  /\ convertFixedParts(fixedLPD).iters = 1
  /\ subtractPasses.borrows = 2
  /\ subtractPasses.carries = 1
  /\ ValidParts(epdParts)

\* C10: for a validated duration the EPD is never later than the LPD.
C10_EpdNotAfterLpd ==
  (Shown /\ Validated) => DateKey(epdCalDate) <= DateKey(lpdCalDate)

\* Subtracting the remission months left a day beyond the target month's
\* length, which the +1 day carry pushed into the next month.
C10_Witness ==
  /\ Shown
  /\ Validated
  /\ total >= 45
  /\ remission.months > 0
  /\ remission.days = 0
  /\ lpdCalDate.day > MonthLength(epdCalDate.year, IF epdCalDate.month = 1 THEN 12 ELSE epdCalDate.month - 1)
  /\ subtractPasses.carries = 1
  /\ DateKey(epdCalDate) <= DateKey(lpdCalDate)

====
